---- MODULE Spec2Model ----
(***************************************************************************)
(* Model of the vCon email-thread service (app.py, model.py, database.py). *)
(*                                                                         *)
(* State: the Conversation table and, for every database session, the      *)
(* position of the request it is serving.  Two specifications:             *)
(*   Spec      every request handler runs to completion before the next    *)
(*             request starts (requests served one after the other);       *)
(*   ConcSpec  two sessions serve POST requests whose query, commit and    *)
(*             refresh steps interleave (no lock, READ COMMITTED, the      *)
(*             default isolation of the engine built in database.py).      *)
(***************************************************************************)
EXTENDS Integers, Sequences, FiniteSets, TLC

----------------------------------------------------------------------------
(* Bounds of the model *)

MaxParties == 2

MaxDialogs == 2

MaxPosts == 2

MaxConcPosts == 3

MaxConcItems == 1

----------------------------------------------------------------------------
(* Request values *)

Threads == {"t1", "t2"}

Emails == {"a@x.com", "b@x.com"}

Bodies == {"hi", "yo"}

OriginatorIndexes == {0, 1}

\* datetime.datetime values: a wall-clock reading (hours) and a tzinfo
DateTimes == {[wall |-> 1, tz |-> "+01:00"]}

Sessions == {"s1", "s2"}

SeqUpTo(S, n) == UNION {[1..k -> S] : k \in 0..n}

DialogIn == [originator_index : OriginatorIndexes, body_snippet : Bodies, last_modified : DateTimes]

EmailThreadRequest == [thread_id : Threads, parties : SeqUpTo(Emails, MaxParties), dialogs : SeqUpTo(DialogIn, MaxDialogs)]

\* the requests the interleaved specification draws from
ConcRequest == {req \in EmailThreadRequest : Len(req.parties) + Len(req.dialogs) <= MaxConcItems}

----------------------------------------------------------------------------
(* Pure functions of app.py *)

Range(n) == [i \in 1..n |-> i - 1]

\* dt.replace(tzinfo=utc).isoformat(): the wall-clock reading is kept and
\* relabelled +00:00; the original offset is dropped, not converted.
UtcIso(dt) == [wall |-> dt.wall, tz |-> "+00:00"]

Party(email) == [email |-> email]

\* Dialog built by create_email_thread_vcon: no metadata / meta keys
BuilderDialog(dlg, n) ==
    [type |-> "text", start |-> UtcIso(dlg.last_modified), parties |-> Range(n),
     originator |-> dlg.originator_index, mimetype |-> "text/plain",
     body |-> dlg.body_snippet, metadata |-> "absent", meta |-> "absent"]

create_email_thread_vcon(req) ==
    [thread_id |-> req.thread_id,
     parties |-> [i \in 1..Len(req.parties) |-> Party(req.parties[i])],
     dialog |-> [i \in 1..Len(req.dialogs) |-> BuilderDialog(req.dialogs[i], Len(req.parties))]]

\* variant: the new descriptors are put in front of the existing ones
MergeParties_Front(parties, incoming) ==
    LET existing_parties == {parties[i].email : i \in 1..Len(parties)}
        new_parties == SelectSeq([i \in 1..Len(incoming) |-> Party(incoming[i])],
                                 LAMBDA p : p.email \notin existing_parties)
    IN new_parties \o parties

MergeParties(parties, incoming) ==
    LET existing_parties == {parties[i].email : i \in 1..Len(parties)}
        new_parties == SelectSeq([i \in 1..Len(incoming) |-> Party(incoming[i])],
                                 LAMBDA p : p.email \notin existing_parties)
    IN parties \o new_parties

DialogKey(d) == <<d.body, d.start>>

\* existing_bodies (a dict built once, before the loop): a later index wins
ExistingBodies(dialog) ==
    [k \in {DialogKey(dialog[i]) : i \in 1..Len(dialog)} |->
        CHOOSE i \in 1..Len(dialog) :
            /\ DialogKey(dialog[i]) = k
            /\ \A j \in 1..Len(dialog) : DialogKey(dialog[j]) = k => j <= i]

NewDialog(dlg, n) ==
    [type |-> "text", start |-> UtcIso(dlg.last_modified), parties |-> Range(n),
     originator |-> dlg.originator_index, mimetype |-> "text/plain",
     body |-> dlg.body_snippet, metadata |-> "{}", meta |-> "{}"]

RECURSIVE MergeDialogs(_, _, _, _)
MergeDialogs(dialog, existing_bodies, n, dlgs) ==
    IF dlgs = <<>> THEN dialog
    ELSE LET dlg == Head(dlgs)
             dlg_start == UtcIso(dlg.last_modified)
             dlg_tuple == <<dlg.body_snippet, dlg_start>>
         IN IF dlg_tuple \in DOMAIN existing_bodies
            THEN MergeDialogs([dialog EXCEPT ![existing_bodies[dlg_tuple]].body = dlg.body_snippet,
                                             ![existing_bodies[dlg_tuple]].start = dlg_start],
                              existing_bodies, n, Tail(dlgs))
            ELSE MergeDialogs(Append(dialog, NewDialog(dlg, n)), existing_bodies, n, Tail(dlgs))

\* variant: a new dialog's parties range is taken before the party list is extended
MergeVcon_StaleCount(existing_vcon, req) ==
    [existing_vcon EXCEPT
        !.parties = MergeParties(existing_vcon.parties, req.parties),
        !.dialog = MergeDialogs(existing_vcon.dialog, ExistingBodies(existing_vcon.dialog),
                                Len(existing_vcon.parties), req.dialogs)]

\* the merge branch of generate_email_vcon applied to the loaded record
MergeVcon(existing_vcon, req) ==
    LET parties == MergeParties(existing_vcon.parties, req.parties)
    IN [existing_vcon EXCEPT
          !.parties = parties,
          !.dialog = MergeDialogs(existing_vcon.dialog, ExistingBodies(existing_vcon.dialog),
                                  Len(parties), req.dialogs)]

----------------------------------------------------------------------------
(* State *)

VARIABLES table, now, sess, last, upserts, introduced

vars == <<table, now, sess, last, upserts, introduced>>

\* rows of a Conversation table with the given threadId (threadId is indexed, not unique)
RowsIn(tbl, tid) == {i \in 1..Len(tbl) : tbl[i].threadId = tid}

RowsOf(tid) == RowsIn(table, tid)

Conversation(id, vcon, tid, t) ==
    [id |-> id, vcon |-> vcon, threadId |-> tid, createdAt |-> t, updatedAt |-> t]

\* variant: an unknown thread is answered with an empty record
NotFound_Empty == [status |-> 200, vcon |-> [thread_id |-> "", parties |-> <<>>, dialog |-> <<>>]]

NotFound == [status |-> 404, detail |-> "Conversation not found"]

Ok(vcon) == [status |-> 200, vcon |-> vcon]

\* bookkeeping of the most recently answered request (afterPost: the one answered
\* before it was a POST for the same thread)
Answered(kind, req, branch, resp) ==
    [kind |-> kind, tid |-> req.thread_id, req |-> req, branch |-> branch, resp |-> resp,
     afterPost |-> last.kind = "POST" /\ last.tid = req.thread_id]

NoRequest == [kind |-> "none", tid |-> "", req |-> [thread_id |-> "", parties |-> <<>>, dialogs |-> <<>>],
              branch |-> "none", resp |-> NotFound, afterPost |-> FALSE]

IdleSession == [pc |-> "idle"]

\* reference order for the history: the emails of a sequence appended, in order of
\* first appearance, to an already distinct one
RECURSIVE AppendDistinct(_, _)
AppendDistinct(seen, emails) ==
    IF emails = <<>> THEN seen
    ELSE AppendDistinct(IF \E i \in 1..Len(seen) : seen[i] = Head(emails)
                        THEN seen ELSE Append(seen, Head(emails)),
                        Tail(emails))

Init ==
    /\ table = <<>>
    /\ now = 0
    /\ sess = [s \in Sessions |-> IdleSession]
    /\ last = NoRequest
    /\ upserts = [t \in Threads |-> 0]
    /\ introduced = [t \in Threads |-> <<>>]

----------------------------------------------------------------------------
(* Database steps *)

\* db.add(Conversation(vcon=vcon_dict, threadId=...)); db.commit()
Insert(tbl, vcon, tid, t) == Append(tbl, Conversation(Len(tbl) + 1, vcon, tid, t))

\* conversation.vcon = existing_vcon; flag_modified; updatedAt = now(); db.commit():
\* UPDATE "Conversation" SET vcon = ..., "updatedAt" = ... WHERE id = ...
Update(tbl, id, vcon, t) == [tbl EXCEPT ![id].vcon = vcon, ![id].updatedAt = t]

\* variant: the handler returns the record it built from the request
Returned_Built(tbl, id, vcon_dict) == Ok(vcon_dict)

\* what db.refresh(conversation); return conversation.vcon hands back
Returned(tbl, id, vcon_dict) == Ok(tbl[id].vcon)

\* record of the committed upserts: how many per thread, and the emails they
\* introduced in order of first appearance
Recorded(req) ==
    /\ upserts' = [upserts EXCEPT ![req.thread_id] = @ + 1]
    /\ introduced' = [introduced EXCEPT ![req.thread_id] = AppendDistinct(@, req.parties)]

----------------------------------------------------------------------------
(* Request handlers, each run to completion *)

\* POST /vcon/email_thread
generate_email_vcon(req) ==
    /\ now < MaxPosts
    /\ \A s \in Sessions : sess[s].pc = "idle"
    /\ IF RowsOf(req.thread_id) # {}
       THEN \E id \in RowsOf(req.thread_id) :
               /\ table' = Update(table, id, MergeVcon(table[id].vcon, req), now + 1)
               /\ last' = Answered("POST", req, "merge",
                                   Returned(table', id, create_email_thread_vcon(req)))
       ELSE /\ table' = Insert(table, create_email_thread_vcon(req), req.thread_id, now + 1)
            /\ last' = Answered("POST", req, "insert",
                                Returned(table', Len(table'), create_email_thread_vcon(req)))
    /\ now' = now + 1
    /\ Recorded(req)
    /\ UNCHANGED sess

\* GET /vcon/{thread_id}
get_vcon_by_thread_id(tid) ==
    /\ IF RowsOf(tid) = {}
       THEN last' = Answered("GET", [thread_id |-> tid, parties |-> <<>>, dialogs |-> <<>>], "none", NotFound)
       ELSE \E id \in RowsOf(tid) :
               last' = Answered("GET", [thread_id |-> tid, parties |-> <<>>, dialogs |-> <<>>], "none",
                                Ok(table[id].vcon))
    /\ UNCHANGED <<table, now, sess, upserts, introduced>>

Next ==
    \/ \E req \in EmailThreadRequest : generate_email_vcon(req)
    \/ \E tid \in Threads : get_vcon_by_thread_id(tid)

Spec == Init /\ [][Next]_vars

----------------------------------------------------------------------------
(* The POST handler step by step, one database session per request *)

Started == now + Cardinality({s \in Sessions : sess[s].pc = "queried"})

\* lines 99-103: build the vcon, then SELECT ... WHERE "threadId" = ... LIMIT 1
Query(s, req) ==
    /\ sess[s].pc \in {"idle", "closed"}
    /\ Started < MaxConcPosts
    /\ IF RowsOf(req.thread_id) = {}
       THEN sess' = [sess EXCEPT ![s] = [pc |-> "queried", req |-> req, branch |-> "insert",
                                         conv |-> 0, vcon |-> create_email_thread_vcon(req)]]
       ELSE \E id \in RowsOf(req.thread_id) :
               sess' = [sess EXCEPT ![s] = [pc |-> "queried", req |-> req, branch |-> "merge",
                                            conv |-> id, vcon |-> table[id].vcon]]
    /\ UNCHANGED <<table, now, last, upserts, introduced>>

\* variant: the row is read again when the merge starts
Loaded_Reread(s) == table[sess[s].conv].vcon

\* existing_vcon = conversation.vcon: the object the query of this session loaded
Loaded(s) == sess[s].vcon

\* lines 105-159: merge into the loaded record (or add the new row) and commit
Commit(s) ==
    /\ sess[s].pc = "queried"
    /\ IF sess[s].branch = "merge"
       THEN /\ table' = Update(table, sess[s].conv, MergeVcon(Loaded(s), sess[s].req), now + 1)
            /\ sess' = [sess EXCEPT ![s] = [pc |-> "committed", req |-> sess[s].req,
                                            branch |-> "merge", conv |-> sess[s].conv,
                                            vcon |-> sess[s].vcon, at |-> now + 1]]
       ELSE /\ table' = Insert(table, sess[s].vcon, sess[s].req.thread_id, now + 1)
            /\ sess' = [sess EXCEPT ![s] = [pc |-> "committed", req |-> sess[s].req,
                                            branch |-> "insert", conv |-> Len(table) + 1,
                                            vcon |-> sess[s].vcon, at |-> now + 1]]
    /\ now' = now + 1
    /\ Recorded(sess[s].req)
    /\ UNCHANGED last

\* lines 160-161: db.refresh(conversation) re-reads the row by primary key; return it
Refresh(s) ==
    /\ sess[s].pc = "committed"
    /\ sess' = [sess EXCEPT ![s] = [pc |-> "closed", req |-> sess[s].req, branch |-> sess[s].branch,
                                    conv |-> sess[s].conv, vcon |-> sess[s].vcon, at |-> sess[s].at,
                                    resp |-> Returned(table, sess[s].conv, sess[s].vcon)]]
    /\ last' = Answered("POST", sess[s].req, sess[s].branch,
                        Returned(table, sess[s].conv, sess[s].vcon))
    /\ UNCHANGED <<table, now, upserts, introduced>>

ConcNext ==
    \/ \E s \in Sessions, req \in ConcRequest : Query(s, req)
    \/ \E s \in Sessions : Commit(s)
    \/ \E s \in Sessions : Refresh(s)
    \/ \E tid \in Threads : get_vcon_by_thread_id(tid)

ConcSpec == Init /\ [][ConcNext]_vars

----------------------------------------------------------------------------
(* Properties *)

Emails_of(parties) == [i \in 1..Len(parties) |-> parties[i].email]

Elems(seq) == {seq[i] : i \in 1..Len(seq)}

\* the step just taken answered a POST (Spec: every POST advances the clock)
PostStep == last'.kind = "POST" /\ now' = now + 1

MergeStep == PostStep /\ last'.branch = "merge"

\* the dialog list the row held before the step (empty for a row the step added)
DialogBefore(id) == IF id <= Len(table) THEN table[id].vcon.dialog ELSE <<>>

\* C1: no stored party list holds two descriptors with the same email.
C1_NoDuplicateEmails ==
    \A id \in 1..Len(table) :
        LET parties == table[id].vcon.parties
        IN \A i, j \in 1..Len(parties) : parties[i].email = parties[j].email => i = j

MergeAdded(d) == d.metadata = "{}"

NoTwoMergeAddedWithSameKey(dialog) ==
    \A i, j \in 1..Len(dialog) :
        (i # j /\ MergeAdded(dialog[i]) /\ MergeAdded(dialog[j]))
            => DialogKey(dialog[i]) # DialogKey(dialog[j])

\* C2: a merge adds nothing for an incoming entry whose (body, start) key is
\* already in the record, adds exactly one entry per incoming key that is not,
\* and so never leaves two merge-added entries with the same key.
C2_UpsertKey ==
    [][MergeStep =>
        \A id \in RowsOf(last'.tid) :
            LET old == table[id].vcon.dialog
                new == table'[id].vcon.dialog
                incoming == {<<d.body_snippet, UtcIso(d.last_modified)>> : d \in Elems(last'.req.dialogs)}
                known == {DialogKey(d) : d \in Elems(old)}
            IN /\ Len(new) = Len(old) + Cardinality(incoming \ known)
               /\ NoTwoMergeAddedWithSameKey(new)]_vars

\* C3: a GET answered right after a POST for the same thread returns the
\* parties and dialog lists the POST returned.
C3_RoundTrip ==
    [][(last'.kind = "GET" /\ last'.afterPost /\ last.kind = "POST")
        => /\ last'.resp.status = 200
           /\ last'.resp.vcon.parties = last.resp.vcon.parties
           /\ last'.resp.vcon.dialog = last.resp.vcon.dialog]_vars

C3_Witness ==
    /\ last.kind = "GET" /\ last.afterPost /\ last.resp.status = 200
    /\ upserts[last.tid] = 2
    /\ Len(last.resp.vcon.parties) >= 2
    /\ \E d \in Elems(last.resp.vcon.dialog) : MergeAdded(d)

\* C4: no GET changes the table, and a GET for a thread that no committed
\* upsert used answers 404 "Conversation not found".
C4_UnknownFetch ==
    [][(last'.kind = "GET" /\ now' = now)
        => /\ table' = table
           /\ (upserts[last'.tid] = 0
                => (last'.resp.status = 404 /\ last'.resp.detail = "Conversation not found"))]_vars

C4_Witness ==
    /\ last.kind = "GET" /\ last.resp.status = 404
    /\ upserts[last.tid] = 0
    /\ Len(table) >= 1

\* C5: at most one Conversation row per thread_id.
C5_OneRowPerThread == \A tid \in Threads : Cardinality(RowsOf(tid)) <= 1

\* C6: the stored party list is the sequence of distinct emails in order of
\* first appearance over all the upserts of the thread.
C6_FirstAppearanceOrder ==
    \A id \in 1..Len(table) : Emails_of(table[id].vcon.parties) = introduced[table[id].threadId]

\* C7: a merge keeps the old party list as a prefix, never shortens the dialog
\* list, and leaves the position and every field other than body and start
\* (type, parties, originator, mimetype, metadata, meta) of every old dialog
\* entry as they were.
C7_MergeFrame ==
    [][MergeStep =>
        \A id \in RowsOf(last'.tid) :
            LET old == table[id].vcon
                new == table'[id].vcon
            IN /\ Len(old.parties) <= Len(new.parties)
               /\ SubSeq(new.parties, 1, Len(old.parties)) = old.parties
               /\ Len(old.dialog) <= Len(new.dialog)
               /\ \A i \in 1..Len(old.dialog) :
                    /\ new.dialog[i].type = old.dialog[i].type
                    /\ new.dialog[i].parties = old.dialog[i].parties
                    /\ new.dialog[i].originator = old.dialog[i].originator
                    /\ new.dialog[i].mimetype = old.dialog[i].mimetype
                    /\ new.dialog[i].metadata = old.dialog[i].metadata
                    /\ new.dialog[i].meta = old.dialog[i].meta]_vars

C7_Witness ==
    /\ last.kind = "POST" /\ last.branch = "merge"
    /\ \E id \in RowsOf(last.tid) :
        LET vcon == table[id].vcon
        IN /\ \E d \in Elems(vcon.dialog) : ~MergeAdded(d) /\ DialogKey(d) \in
                    {<<x.body_snippet, UtcIso(x.last_modified)>> : x \in Elems(last.req.dialogs)}
           /\ \E d \in Elems(vcon.dialog) : MergeAdded(d)
           /\ \E e \in Elems(Emails_of(vcon.parties)) : e \notin Elems(last.req.parties)
           /\ \E e \in Elems(last.req.parties) : vcon.parties[Len(vcon.parties)].email = e
                    /\ vcon.parties[1].email # e

\* C8 as claimed: every dialog entry's parties field is the index range of the
\* whole current party list.
C8_AllCurrentParties ==
    \A id \in 1..Len(table) :
        \A d \in Elems(table[id].vcon.dialog) : d.parties = Range(Len(table[id].vcon.parties))

\* C8 as amended: an entry added by a POST gets the index range of the party
\* list as it stands after that POST's participants were added; entries that
\* were there before keep their parties field; so every entry holds a range
\* [0, k) with k at most the current length of the party list.
C8_PartiesAtEntryTime ==
    [][PostStep =>
        \A id \in RowsIn(table', last'.tid) :
            LET new == table'[id].vcon
                old == DialogBefore(id)
            IN /\ Len(old) <= Len(new.dialog)
               /\ \A i \in 1..Len(new.dialog) :
                    /\ i <= Len(old) => new.dialog[i].parties = old[i].parties
                    /\ i > Len(old) => new.dialog[i].parties = Range(Len(new.parties))
                    /\ \E k \in 0..Len(new.parties) : new.dialog[i].parties = Range(k)]_vars

C8_Witness ==
    /\ last.kind = "POST" /\ last.branch = "merge"
    /\ \E id \in RowsOf(last.tid) :
        LET vcon == table[id].vcon
        IN /\ \E d \in Elems(vcon.dialog) : ~MergeAdded(d) /\ Len(d.parties) < Len(vcon.parties)
           /\ \E d \in Elems(vcon.dialog) : MergeAdded(d) /\ Len(d.parties) = Len(vcon.parties)

\* two requests that merged into the same row from the same loaded record, both answered
Raced(s1, s2) ==
    /\ s1 # s2
    /\ sess[s1].pc = "closed" /\ sess[s2].pc = "closed"
    /\ sess[s1].branch = "merge" /\ sess[s2].branch = "merge"
    /\ sess[s1].conv = sess[s2].conv
    /\ sess[s1].vcon = sess[s2].vcon
    /\ sess[s1].at < sess[s2].at

\* C9: when two requests merged into the same row from the same loaded record,
\* the stored record holds only what the later commit wrote: every party and
\* every dialog key comes from the loaded record or from the later request, so
\* whatever only the earlier request added is gone.
C9_LastCommitWins ==
    \A s1, s2 \in Sessions :
        Raced(s1, s2) =>
            LET stored == table[sess[s2].conv].vcon
                loaded == sess[s2].vcon
                later == sess[s2].req
            IN /\ Elems(Emails_of(stored.parties))
                    \subseteq Elems(Emails_of(loaded.parties)) \cup Elems(later.parties)
               /\ {DialogKey(d) : d \in Elems(stored.dialog)}
                    \subseteq {DialogKey(d) : d \in Elems(loaded.dialog)}
                        \cup {<<x.body_snippet, UtcIso(x.last_modified)>> : x \in Elems(later.dialogs)}

C9_Witness ==
    \E s1, s2 \in Sessions :
        /\ Raced(s1, s2)
        /\ sess[s1].resp.status = 200 /\ sess[s2].resp.status = 200
        /\ \E e \in Elems(Emails_of(sess[s1].resp.vcon.parties)) :
              /\ e \notin Elems(Emails_of(sess[s1].vcon.parties))
              /\ e \notin Elems(Emails_of(table[sess[s1].conv].vcon.parties))

\* C10: for every dialog entry a POST adds from an incoming entry whose
\* originator_index is valid for the request's party list, the stored party at
\* position originator is the email the request had at originator_index.
C10_OriginatorIsSender ==
    [][PostStep =>
        \A id \in RowsIn(table', last'.tid) :
            LET new == table'[id].vcon
                req == last'.req
            IN \A i \in (Len(DialogBefore(id)) + 1)..Len(new.dialog) :
                 \A dlg \in Elems(req.dialogs) :
                    (/\ new.dialog[i].body = dlg.body_snippet
                     /\ new.dialog[i].start = UtcIso(dlg.last_modified)
                     /\ new.dialog[i].originator = dlg.originator_index
                     /\ dlg.originator_index < Len(req.parties))
                    => /\ new.dialog[i].originator < Len(new.parties)
                       /\ new.parties[new.dialog[i].originator + 1].email
                            = req.parties[dlg.originator_index + 1]]_vars

====
